---- MODULE Spec2Model ----
(***************************************************************************)
(* Model of elasticsearch/x-dev-tools/create_bwc_indexes.py: the version   *)
(* filter (parse_version and Python's list/str ordering), and main()'s     *)
(* per-version workflow: plugin set-up, start_node, create_client,         *)
(* generate_security_index, shutdown_node, compress_index and the finally  *)
(* block.                                                                  *)
(*                                                                         *)
(* A Python str is modelled as a sequence of one-character strings; the    *)
(* order of characters is their code-point order.                          *)
(***************************************************************************)
EXTENDS Integers, Sequences, FiniteSets, TLC

VARIABLES
  \* ---- main() -----------------------------------------------------------
  versions,    \* cfg.versions: the list of version strings
  idx,         \* position of the for loop in cfg.versions (1-based)
  pc,          \* the statement main() is about to execute
  exc,         \* the exception in flight ("none" when there is none)
  tmp_dir,     \* the directory mkdtemp returned for this version (0: none)
  tmpDirs,     \* the temporary directories that exist on disk
  node,        \* main()'s variable node (0 models None)
  procs,       \* state of every node process spawned by start_node
  client,      \* main()'s variable client
  attempt,     \* create_client: the loop variable of range(0, 30)
  health,      \* create_client: outcome of the latest health-check attempt
  trace,       \* external commands and calls issued for the current version
  httpCalls,   \* generate_security_index: the HTTP calls issued, in order
  cwd,         \* the process working directory (0: the directory at start)
  outputDir,   \* cfg.output_dir: archive name (version) -> content
  skipped,     \* loop positions left by the `continue` of line 237
  begun,       \* loop positions that entered the else branch of line 238
  exitStatus,  \* the exit status of the process (-1 while it runs)
  \* ---- parse_version as a pure function ----------------------------------
  pvPc, pvA, pvB, pvResA, pvResB, pvLess,
  \* ---- prepare_release_candidate.py --------------------------------------
  relPc,         \* the statement the release script is about to execute
  relArgs,       \* the flags given on the command line
  skip_doc_check,\* the script's variable skip_doc_check
  checkout,      \* what git reports about the checkout
  release,       \* the release version found in pom.xml
  versionFile,   \* VERSION_FILE on disk: whether it exists, and its lines
  relTmp,        \* the files made by tempfile.mkstemp that exist on disk
  processed,     \* what process_file returned
  relLog,        \* the checks and commands the script has run, in order
  relExc         \* the exception that ended the script ("none": none)

mainVars == <<versions, idx, pc, exc, tmp_dir, tmpDirs, node, procs, client,
              attempt, health, trace, httpCalls, cwd, outputDir, skipped, begun>>
pvVars == <<pvPc, pvA, pvB, pvResA, pvResB, pvLess>>
relVars == <<relPc, relArgs, skip_doc_check, checkout, release, versionFile, relTmp,
             processed, relLog, relExc>>
vars == <<mainVars, exitStatus, pvVars, relVars>>

\* the release script is not running
RelIdle ==
  /\ relPc = "idle"
  /\ relArgs = [deploy |-> FALSE, skipDocCheck |-> FALSE, push |-> FALSE,
                install_only |-> FALSE]
  /\ skip_doc_check = FALSE
  /\ checkout = [local_mods |-> FALSE, untracked |-> FALSE, branch |-> "up to date"]
  /\ release = <<>>
  /\ versionFile = [exists |-> FALSE, lines |-> <<>>]
  /\ relTmp = {}
  /\ processed = "unset"
  /\ relLog = <<>>
  /\ relExc = "none"

(***************************************************************************)
(* Bounds of the model.                                                    *)
(***************************************************************************)
MaxVersions == 2
MaxMajor == 2
MaxMinor == 10
MaxPatch == 4

(***************************************************************************)
(* Characters and strings.                                                 *)
(***************************************************************************)
\* The characters used, in code-point order: '-' 45, '.' 46, '0'..'9' 48..57,
\* upper case 65..90, lower case 97..122.
Alphabet ==
  <<"-", ".", "0", "1", "2", "3", "4", "5", "6", "7", "8", "9",
    "A", "B", "C", "G", "R", "a", "b", "c", "g", "r">>

Ord(c) == CHOOSE i \in 1..Len(Alphabet) : Alphabet[i] = c

Digits == <<"0", "1", "2", "3", "4", "5", "6", "7", "8", "9">>

IsDigit(c) == \E i \in 1..Len(Digits) : Digits[i] = c

DigitVal(c) == (CHOOSE i \in 1..Len(Digits) : Digits[i] = c) - 1

\* str.lower() on one character
LowerChar(c) ==
  CASE c = "A" -> "a"
    [] c = "B" -> "b"
    [] c = "C" -> "c"
    [] c = "G" -> "g"
    [] c = "R" -> "r"
    [] OTHER -> c

\* s.lower()
Lower(s) == [i \in 1..Len(s) |-> LowerChar(s[i])]

\* Python's s < t on str: the first differing character decides, a proper
\* prefix is smaller.
RECURSIVE StrLess(_, _)
StrLess(s, t) ==
  IF t = <<>> THEN FALSE
  ELSE IF s = <<>> THEN TRUE
  ELSE IF Head(s) # Head(t) THEN Ord(Head(s)) < Ord(Head(t))
  ELSE StrLess(Tail(s), Tail(t))

\* Python's x < y on lists of str: the first differing element decides, a
\* proper prefix is smaller.
RECURSIVE ListLess(_, _)
ListLess(x, y) ==
  IF y = <<>> THEN FALSE
  ELSE IF x = <<>> THEN TRUE
  ELSE IF Head(x) # Head(y) THEN StrLess(Head(x), Head(y))
  ELSE ListLess(Tail(x), Tail(y))

\* re.split('[.-]', version): cur is the piece being read, acc the pieces read
RECURSIVE ReSplit(_, _, _)
ReSplit(s, cur, acc) ==
  IF s = <<>> THEN Append(acc, cur)
  ELSE IF Head(s) \in {".", "-"}
       THEN ReSplit(Tail(s), <<>>, Append(acc, cur))
       ELSE ReSplit(Tail(s), Append(cur, Head(s)), acc)

GA == <<"G", "A">>

\* parse_version with the 3-component case dropped: a faulty variant
parse_version_noGA(version) ==
  LET splitted == ReSplit(version, <<>>, <<>>)
      lowered  == [i \in 1..Len(splitted) |-> Lower(splitted[i])]
  IN  IF Len(lowered) \in {3, 4}
      THEN [raised |-> FALSE, value |-> lowered]
      ELSE [raised |-> TRUE, value |-> <<>>]

\* parse_version: the list it returns, or raised when the assert fails
parse_version(version) ==
  LET splitted == ReSplit(version, <<>>, <<>>)
      withGA   == IF Len(splitted) = 3 THEN Append(splitted, GA) ELSE splitted
      lowered  == [i \in 1..Len(withGA) |-> Lower(withGA[i])]
  IN  IF Len(lowered) = 4
      THEN [raised |-> FALSE, value |-> lowered]
      ELSE [raised |-> TRUE, value |-> <<>>]

(***************************************************************************)
(* Version strings given on the command line.                              *)
(***************************************************************************)
\* decimal rendering of a natural number
RECURSIVE Str(_)
Str(n) == IF n < 10 THEN <<Digits[n + 1]>> ELSE Append(Str(n \div 10), Digits[(n % 10) + 1])

\* int(s) of a string of digits
RECURSIVE ToInt(_)
ToInt(s) == IF s = <<>> THEN 0 ELSE 10 * ToInt(SubSeq(s, 1, Len(s) - 1)) + DigitVal(s[Len(s)])

IsNumber(s) == Len(s) > 0 /\ \A i \in 1..Len(s) : IsDigit(s[i])

Ver3(major, minor, patch) == Str(major) \o <<".">> \o Str(minor) \o <<".">> \o Str(patch)

\* X.Y.Z version strings
NumericVersions ==
  {Ver3(a, b, c) : a \in 1..MaxMajor, b \in 0..MaxMinor, c \in 0..MaxPatch}

\* other arguments: qualified versions, and strings that are no X.Y.Z
OddVersions ==
  { Ver3(2, 3, 0) \o <<"-", "b", "1">>,
    Ver3(2, 4, 0) \o <<"-", "R", "C", "1">>,
    Ver3(2, 4, 0) \o <<".", "R", "C", "1">>,
    Str(2) \o <<".">> \o Str(3),
    Str(2),
    Ver3(2, 3, 4) \o <<".", "0", "-", "G", "A">>,
    <<>> }

ParseInputs == NumericVersions \cup OddVersions

MIN_VERSION == Ver3(2, 3, 0)

(***************************************************************************)
(* parse_version and the comparison of its results, on their own.          *)
(***************************************************************************)
MainIdle ==
  /\ versions = <<>> /\ idx = 1 /\ pc = "idle" /\ exc = "none"
  /\ tmp_dir = 0 /\ tmpDirs = {} /\ node = 0 /\ procs = <<>>
  /\ client = 0 /\ attempt = 0 /\ health = "none"
  /\ trace = <<>> /\ httpCalls = <<>> /\ cwd = 0
  /\ outputDir = <<>> /\ skipped = {} /\ begun = {}
  /\ exitStatus = -1

PvIdleMain ==
  /\ MainIdle
  /\ RelIdle

InitParse ==
  /\ PvIdleMain
  /\ pvPc = "start"
  /\ pvA \in ParseInputs
  /\ pvB \in ParseInputs
  /\ pvResA = [raised |-> FALSE, value |-> <<>>]
  /\ pvResB = [raised |-> FALSE, value |-> <<>>]
  /\ pvLess = "unset"

\* parse_version(a), parse_version(b)
ParseBoth ==
  /\ pvPc = "start"
  /\ pvResA' = parse_version(pvA)
  /\ pvResB' = parse_version(pvB)
  /\ pvPc' = IF pvResA'.raised \/ pvResB'.raised THEN "raised" ELSE "parsed"
  /\ UNCHANGED <<pvA, pvB, pvLess, mainVars, exitStatus, relVars>>

\* parse_version(a) < parse_version(b)
CompareParsed ==
  /\ pvPc = "parsed"
  /\ pvLess' = IF ListLess(pvResA.value, pvResB.value) THEN "True" ELSE "False"
  /\ pvPc' = "compared"
  /\ UNCHANGED <<pvA, pvB, pvResA, pvResB, mainVars, exitStatus, relVars>>

NextParse == ParseBoth \/ CompareParsed

SpecParse == InitParse /\ [][NextParse]_vars

(***************************************************************************)
(* main(): the state after parse_config.                                   *)
(***************************************************************************)
\* the versions main() is run on
VersionInputs ==
  { Ver3(1, 7, 5), Ver3(2, 3, 0), Ver3(2, 3, 4), Ver3(2, 10, 0),
    Ver3(2, 4, 0) \o <<"-", "R", "C", "1">>,
    Str(2) \o <<".">> \o Str(3) }

VersionLists == UNION {[1..n -> VersionInputs] : n \in 0..MaxVersions}

Range(f) == {f[i] : i \in DOMAIN f}

\* content of an archive that is in the output directory before the run
OLD_CONTENT == {0}

PvIdle ==
  /\ pvPc = "idle" /\ pvA = <<>> /\ pvB = <<>>
  /\ pvResA = [raised |-> FALSE, value |-> <<>>]
  /\ pvResB = [raised |-> FALSE, value |-> <<>>]
  /\ pvLess = "unset"

Init ==
  /\ PvIdle
  /\ RelIdle
  /\ exitStatus = -1
  /\ versions \in VersionLists
  /\ \E present \in SUBSET Range(versions) : outputDir = [v \in present |-> OLD_CONTENT]
  /\ idx = 1
  /\ pc = "loop"
  /\ exc = "none"
  /\ tmp_dir = 0
  /\ tmpDirs = {}
  /\ node = 0
  /\ procs = [i \in 1..Len(versions) |-> [state |-> "none", terminateCalls |-> 0]]
  /\ client = 0
  /\ attempt = 0
  /\ health = "none"
  /\ trace = <<>>
  /\ httpCalls = <<>>
  /\ cwd = 0
  /\ skipped = {}
  /\ begun = {}

(***************************************************************************)
(* The for loop and the version filter.                                    *)
(***************************************************************************)
\* parse_version(version) < parse_version('2.3.0')
BelowMinimum(version) ==
  ListLess(parse_version(version).value, parse_version(MIN_VERSION).value)

\* the for loop is exhausted: main() returns
Finish ==
  /\ pc = "loop"
  /\ idx > Len(versions)
  /\ pc' = "done"
  /\ UNCHANGED <<versions, idx, exc, tmp_dir, tmpDirs, node, procs, client, attempt,
                 health, trace, httpCalls, cwd, outputDir, skipped, begun, exitStatus, pvVars, relVars>>

\* parse_version(version) fails its assert: main() ends with AssertionError
ParseFail ==
  /\ pc = "loop"
  /\ idx <= Len(versions)
  /\ parse_version(versions[idx]).raised
  /\ exc' = "AssertionError"
  /\ pc' = "raised"
  /\ UNCHANGED <<versions, idx, tmp_dir, tmpDirs, node, procs, client, attempt,
                 health, trace, httpCalls, cwd, outputDir, skipped, begun, exitStatus, pvVars, relVars>>

\* lines 235-237: log and continue
Skip ==
  /\ pc = "loop"
  /\ idx <= Len(versions)
  /\ ~parse_version(versions[idx]).raised
  /\ BelowMinimum(versions[idx])
  /\ skipped' = skipped \cup {idx}
  /\ idx' = idx + 1
  /\ UNCHANGED <<versions, pc, exc, tmp_dir, tmpDirs, node, procs, client, attempt,
                 health, trace, httpCalls, cwd, outputDir, begun, exitStatus, pvVars, relVars>>

\* lines 238-239: the else branch is entered
Begin ==
  /\ pc = "loop"
  /\ idx <= Len(versions)
  /\ ~parse_version(versions[idx]).raised
  /\ ~BelowMinimum(versions[idx])
  /\ begun' = begun \cup {idx}
  /\ trace' = <<>>
  /\ httpCalls' = <<>>
  /\ health' = "none"
  /\ pc' = "setup"
  /\ UNCHANGED <<versions, idx, exc, tmp_dir, tmpDirs, node, procs, client, attempt,
                 cwd, outputDir, skipped, exitStatus, pvVars, relVars>>

(***************************************************************************)
(* The try block of main(), lines 250-272.                                 *)
(***************************************************************************)
\* the try block with the archive step ahead of the shutdown: a faulty variant
TryOrder_archive_first ==
  << "remove_license", "remove_shield", "rm_shield_config", "install_license",
     "install_shield", "useradd", "start_node", "create_client",
     "generate_security_index", "compress_index", "shutdown_node" >>

\* the try block with the installs ahead of the removals: a faulty variant
TryOrder_install_first ==
  << "install_license", "install_shield", "remove_license", "remove_shield",
     "rm_shield_config", "useradd", "start_node", "create_client",
     "generate_security_index", "shutdown_node", "compress_index" >>

\* the statements of the try block, in the order of the source
TryOrder ==
  << "remove_license", "remove_shield", "rm_shield_config", "install_license",
     "install_shield", "useradd", "start_node", "create_client",
     "generate_security_index", "shutdown_node", "compress_index" >>

\* lines 242-248: the release directory is looked up, the temporary directory made
Setup ==
  /\ pc = "setup"
  /\ \E exists \in BOOLEAN :
       IF exists
       THEN /\ tmp_dir' = idx
            /\ tmpDirs' = tmpDirs \cup {idx}
            /\ node' = 0
            /\ pc' = Head(TryOrder)
            /\ exc' = exc
       ELSE /\ exc' = "RuntimeError"
            /\ pc' = "raised"
            /\ UNCHANGED <<tmp_dir, tmpDirs, node>>
  /\ UNCHANGED <<versions, idx, procs, client, attempt, health, trace, httpCalls,
                 cwd, outputDir, skipped, begun, exitStatus, pvVars, relVars>>

\* the statement that follows step in the try block; the finally block after the last
After(step) ==
  LET i == CHOOSE k \in 1..Len(TryOrder) : TryOrder[k] = step
  IN  IF i < Len(TryOrder) THEN TryOrder[i + 1] ELSE "finally"

\* a statement of the try block raises: control goes to the finally block
Raise(e) ==
  /\ exc' = e
  /\ pc' = "finally"

\* the event of a shelled-out command ending with a non-zero exit status
NONZERO_EXIT == <<"exit", "nonzero">>

\* ShellStep with the exit status not looked at: a faulty variant
ShellStep_ignore_status(step, command, error) ==
  /\ pc = step
  /\ \E status \in {0, 1} :
       /\ trace' = IF status = 0 THEN Append(trace, command)
                                 ELSE Append(Append(trace, command), NONZERO_EXIT)
       /\ pc' = After(step)
       /\ exc' = exc
  /\ UNCHANGED <<versions, idx, tmp_dir, tmpDirs, node, procs, client, attempt,
                 health, httpCalls, cwd, outputDir, skipped, begun, exitStatus, pvVars, relVars>>

\* a shelled-out command run at step: subprocess.check_call (run_plugin) and
\* os.system (run) both raise on a non-zero exit status
ShellStep(step, command, error) ==
  /\ pc = step
  /\ \E status \in {0, 1} :
       IF status = 0
       THEN /\ trace' = Append(trace, command)
            /\ pc' = After(step)
            /\ exc' = exc
       ELSE /\ trace' = Append(Append(trace, command), NONZERO_EXIT)
            /\ Raise(error)
  /\ UNCHANGED <<versions, idx, tmp_dir, tmpDirs, node, procs, client, attempt,
                 health, httpCalls, cwd, outputDir, skipped, begun, exitStatus, pvVars, relVars>>

\* run_plugin(version, release_dir, plugin_cmd, [plugin_name])
run_plugin(step, plugin_cmd, plugin_name) ==
  ShellStep(step, <<"plugin", plugin_cmd, plugin_name>>, "CalledProcessError")

\* run(command)
run(step, command) ==
  ShellStep(step, command, "RuntimeError")

RemoveLicense == run_plugin("remove_license", "remove", "license")

RemoveShield == run_plugin("remove_shield", "remove", "shield")

RmShieldConfig == run("rm_shield_config", <<"rm", "-rf", "config/shield">>)

InstallLicense == run_plugin("install_license", "install", "license")

InstallShield == run_plugin("install_shield", "install", "shield")

UserAdd == run("useradd", <<"esusers", "useradd", "es_admin">>)

\* the two ports probed
DEFAULT_TRANSPORT_TCP_PORT == "9300"
DEFAULT_HTTP_TCP_PORT == "9200"

\* start_node with the server spawned before the ports are probed: a faulty variant
start_node_spawn_first(http_open, transport_open, popen_ok) ==
  LET spawned == Append(trace, <<"spawn", "bin/elasticsearch">>)
  IN
  IF http_open
  THEN /\ trace' = Append(spawned, <<"probe", DEFAULT_HTTP_TCP_PORT>>)
       /\ Raise("PortInUse")
       /\ node' = idx
       /\ procs' = [procs EXCEPT ![idx].state = "running"]
  ELSE /\ trace' = Append(Append(spawned, <<"probe", DEFAULT_HTTP_TCP_PORT>>),
                          <<"probe", DEFAULT_TRANSPORT_TCP_PORT>>)
       /\ IF transport_open THEN Raise("PortInUse")
                            ELSE pc' = After("start_node") /\ exc' = exc
       /\ node' = idx
       /\ procs' = [procs EXCEPT ![idx].state = "running"]

\* start_node: connect_ex to each port returns 0 when something listens there;
\* subprocess.Popen raises OSError when the executable cannot be started
start_node(http_open, transport_open, popen_ok) ==
  LET probed1 == Append(trace, <<"probe", DEFAULT_HTTP_TCP_PORT>>)
      probed2 == Append(probed1, <<"probe", DEFAULT_TRANSPORT_TCP_PORT>>)
  IN
  IF http_open
  THEN /\ trace' = probed1
       /\ Raise("PortInUse")
       /\ UNCHANGED <<node, procs>>
  ELSE IF transport_open
  THEN /\ trace' = probed2
       /\ Raise("PortInUse")
       /\ UNCHANGED <<node, procs>>
  ELSE IF ~popen_ok
  THEN /\ trace' = probed2
       /\ Raise("OSError")
       /\ UNCHANGED <<node, procs>>
  ELSE /\ trace' = Append(probed2, <<"spawn", "bin/elasticsearch">>)
       /\ node' = idx
       /\ procs' = [procs EXCEPT ![idx].state = "running"]
       /\ pc' = After("start_node")
       /\ exc' = exc

\* line 263: node = start_node(version, release_dir, data_dir)
StartNode ==
  /\ pc = "start_node"
  /\ \E http_open \in BOOLEAN, transport_open \in BOOLEAN, popen_ok \in BOOLEAN :
       start_node(http_open, transport_open, popen_ok)
  /\ UNCHANGED <<versions, idx, tmp_dir, tmpDirs, client, attempt, health,
                 httpCalls, cwd, outputDir, skipped, begun, exitStatus, pvVars, relVars>>

(***************************************************************************)
(* create_client, lines 92-103.                                            *)
(***************************************************************************)
MAX_ATTEMPTS == 30

\* one pass of the for loop with the except clause leaving the function: a faulty variant
create_client_attempt_no_retry(ok) ==
  /\ attempt < MAX_ATTEMPTS
  /\ IF ok
     THEN /\ health' = "ok"
          /\ client' = node
          /\ attempt' = 0
          /\ pc' = After("create_client")
          /\ exc' = exc
     ELSE /\ health' = "exception"
          /\ attempt' = 0
          /\ Raise("ConnectionError")
          /\ UNCHANGED client

\* one pass of the for loop: the health check succeeds and the client is
\* returned, or its exception is swallowed and time.sleep(1) follows
create_client_attempt(ok) ==
  /\ attempt < MAX_ATTEMPTS
  /\ IF ok
     THEN /\ health' = "ok"
          /\ client' = node
          /\ attempt' = 0
          /\ pc' = After("create_client")
          /\ exc' = exc
     ELSE /\ health' = "exception"
          /\ attempt' = attempt + 1
          /\ UNCHANGED <<client, pc, exc>>

CreateClientAttempt ==
  /\ pc = "create_client"
  /\ \E ok \in BOOLEAN : create_client_attempt(ok)
  /\ UNCHANGED <<versions, idx, tmp_dir, tmpDirs, node, procs, trace, httpCalls,
                 cwd, outputDir, skipped, begun, exitStatus, pvVars, relVars>>

\* line 103, reached when range(0, 30) is exhausted: the assert fails (its
\* message names the undefined `timeout`, so the error raised is a NameError)
CreateClientTimeout ==
  /\ pc = "create_client"
  /\ attempt >= MAX_ATTEMPTS
  /\ attempt' = 0
  /\ Raise("NameError")
  /\ UNCHANGED <<versions, idx, tmp_dir, tmpDirs, node, procs, client, health, trace,
                 httpCalls, cwd, outputDir, skipped, begun, exitStatus, pvVars, relVars>>

(***************************************************************************)
(* generate_security_index, lines 106-155.                                 *)
(***************************************************************************)
ALL_FIELDS == {"title", "body", "secured_body"}

\* the calls with the last document indexed into index2: a faulty variant
HttpSequence_misfiled ==
  << [op |-> "put_user", target |-> "bwc_test_user", fields |-> {}],
     [op |-> "put_role", target |-> "bwc_test_role", fields |-> {}],
     [op |-> "index", target |-> "index1", fields |-> ALL_FIELDS],
     [op |-> "index", target |-> "index1", fields |-> {"title"}],
     [op |-> "index", target |-> "index2", fields |-> ALL_FIELDS],
     [op |-> "index", target |-> "index2", fields |-> {"title"}],
     [op |-> "index", target |-> "index2", fields |-> {"title"}],
     [op |-> "health", target |-> ".security", fields |-> {}] >>

\* the HTTP calls of generate_security_index, in the order of the source
HttpSequence ==
  << [op |-> "put_user", target |-> "bwc_test_user", fields |-> {}],
     [op |-> "put_role", target |-> "bwc_test_role", fields |-> {}],
     [op |-> "index", target |-> "index1", fields |-> ALL_FIELDS],
     [op |-> "index", target |-> "index1", fields |-> {"title"}],
     [op |-> "index", target |-> "index2", fields |-> ALL_FIELDS],
     [op |-> "index", target |-> "index2", fields |-> {"title"}],
     [op |-> "index", target |-> "index3", fields |-> {"title"}],
     [op |-> "health", target |-> ".security", fields |-> {}] >>

\* generate_security_index going on to the next call after a failed one and
\* raising at the end: a faulty variant
generate_security_index_continue(failAt) ==
  IF failAt = 0
  THEN /\ httpCalls' = HttpSequence
       /\ trace' = Append(trace, <<"generate_security_index">>)
       /\ pc' = After("generate_security_index")
       /\ exc' = exc
  ELSE /\ httpCalls' = HttpSequence
       /\ trace' = Append(Append(trace, <<"generate_security_index">>),
                          <<"http_failed", HttpSequence[failAt].op>>)
       /\ Raise("HTTPError")

\* generate_security_index(client, version): failAt = 0 when every call
\* succeeds, else the position of the call that fails (a status other than 200,
\* an exception of the client, a health check that timed out)
generate_security_index(failAt) ==
  IF failAt = 0
  THEN /\ httpCalls' = HttpSequence
       /\ trace' = Append(trace, <<"generate_security_index">>)
       /\ pc' = After("generate_security_index")
       /\ exc' = exc
  ELSE /\ httpCalls' = SubSeq(HttpSequence, 1, failAt)
       /\ trace' = Append(Append(trace, <<"generate_security_index">>),
                          <<"http_failed", HttpSequence[failAt].op>>)
       /\ Raise("HTTPError")

GenerateSecurityIndex ==
  /\ pc = "generate_security_index"
  /\ \E failAt \in 0..Len(HttpSequence) : generate_security_index(failAt)
  /\ UNCHANGED <<versions, idx, tmp_dir, tmpDirs, node, procs, client, attempt,
                 health, cwd, outputDir, skipped, begun, exitStatus, pvVars, relVars>>

(***************************************************************************)
(* shutdown_node, lines 197-200.                                           *)
(***************************************************************************)
ShutdownOutcomes == {"ok", "terminate_raises", "wait_raises"}

\* shutdown_node that neither signals the process nor waits for it: a faulty variant
shutdown_node_no_signal(p, outcome) == p

\* the process record after shutdown_node(n): node.terminate() is called, and
\* unless it raises the process has the signal; node.wait() returns once the
\* process has exited
shutdown_node(p, outcome) ==
  LET called == [p EXCEPT !.terminateCalls = @ + 1]
  IN  CASE outcome = "terminate_raises" -> called
        [] outcome = "wait_raises" ->
             [called EXCEPT !.state = IF @ = "exited" THEN @ ELSE "terminating"]
        [] OTHER -> [called EXCEPT !.state = "exited"]

\* lines 270-271: shutdown_node(node); node = None
ShutdownNode ==
  /\ pc = "shutdown_node"
  /\ \E outcome \in ShutdownOutcomes :
       /\ procs' = [procs EXCEPT ![node] = shutdown_node(@, outcome)]
       /\ IF outcome = "ok"
          THEN /\ node' = 0
               /\ pc' = After("shutdown_node")
               /\ exc' = exc
          ELSE /\ Raise("ShutdownError")
               /\ UNCHANGED node
  /\ trace' = Append(trace, <<"shutdown_node">>)
  /\ UNCHANGED <<versions, idx, tmp_dir, tmpDirs, client, attempt, health,
                 httpCalls, cwd, outputDir, skipped, begun, exitStatus, pvVars, relVars>>

(***************************************************************************)
(* compress_index and compress, lines 157-169.                             *)
(***************************************************************************)
\* what the data directory under tmp holds: the files the node of this run wrote
DataOf(tmp) == {tmp}

\* `zip -r zipfile data`: zip adds the entries to an archive that exists already
\* and creates the archive otherwise
ZipInto(dir, zipfile, entries) ==
  IF zipfile \in DOMAIN dir
  THEN [dir EXCEPT ![zipfile] = @ \cup entries]
  ELSE [f \in DOMAIN dir \cup {zipfile} |-> IF f = zipfile THEN entries ELSE dir[f]]

\* os.remove(zipfile)
Remove(dir, zipfile) == [f \in DOMAIN dir \ {zipfile} |-> dir[f]]

\* compress without lines 163-164: a faulty variant
compress_no_remove(tmp, zipfile, status) ==
  IF status = 0
  THEN /\ outputDir' = ZipInto(outputDir, zipfile, DataOf(tmp))
       /\ cwd' = cwd
  ELSE /\ outputDir' = outputDir
       /\ cwd' = tmp

\* compress(tmp_dir, output_dir, zipfile, 'data'): status is the exit status of
\* zip; check_call raises on a non-zero status, and line 169 is not reached
compress(tmp, zipfile, status) ==
  LET removed == IF zipfile \in DOMAIN outputDir THEN Remove(outputDir, zipfile)
                                                ELSE outputDir
      olddir  == cwd
  IN  IF status = 0
      THEN /\ outputDir' = ZipInto(removed, zipfile, DataOf(tmp))
           /\ cwd' = olddir
      ELSE /\ outputDir' = removed
           /\ cwd' = tmp

\* line 272: compress_index(version, tmp_dir, cfg.output_dir)
CompressIndex ==
  /\ pc = "compress_index"
  /\ \E status \in {0, 1} :
       /\ compress(tmp_dir, versions[idx], status)
       /\ IF status = 0
          THEN /\ trace' = Append(trace, <<"zip", "-r">>)
               /\ pc' = After("compress_index")
               /\ exc' = exc
          ELSE /\ trace' = Append(Append(trace, <<"zip", "-r">>), NONZERO_EXIT)
               /\ Raise("CalledProcessError")
  /\ UNCHANGED <<versions, idx, tmp_dir, tmpDirs, node, procs, client, attempt,
                 health, httpCalls, skipped, begun, exitStatus, pvVars, relVars>>

(***************************************************************************)
(* The finally block, lines 273-278.                                       *)
(***************************************************************************)
\* the finally block without its shutdown_node: a faulty variant
finally_no_shutdown(outcome) ==
  /\ tmpDirs' = tmpDirs \ {tmp_dir}
  /\ outputDir' = outputDir
  /\ UNCHANGED <<procs, trace>>
  /\ IF exc = "none"
     THEN pc' = "loop" /\ idx' = idx + 1 /\ exc' = exc
     ELSE pc' = "raised" /\ UNCHANGED <<idx, exc>>

\* the finally block swallowing the exception and going on with the next
\* version: a faulty variant
finally_swallow(outcome) ==
  /\ IF node # 0
     THEN /\ procs' = [procs EXCEPT ![node].state = "exited", ![node].terminateCalls = @ + 1]
          /\ trace' = Append(trace, <<"shutdown_node">>)
     ELSE UNCHANGED <<procs, trace>>
  /\ tmpDirs' = tmpDirs \ {tmp_dir}
  /\ outputDir' = outputDir
  /\ pc' = "loop"
  /\ idx' = idx + 1
  /\ exc' = "none"

\* the finally block removing the archive of a version that failed: a faulty variant
finally_removes_archive(outcome) ==
  /\ IF node # 0
     THEN /\ procs' = [procs EXCEPT ![node].state = "exited", ![node].terminateCalls = @ + 1]
          /\ trace' = Append(trace, <<"shutdown_node">>)
     ELSE UNCHANGED <<procs, trace>>
  /\ tmpDirs' = tmpDirs \ {tmp_dir}
  /\ outputDir' = IF exc = "none" THEN outputDir
                  ELSE [f \in DOMAIN outputDir \ {versions[idx]} |-> outputDir[f]]
  /\ IF exc = "none"
     THEN pc' = "loop" /\ idx' = idx + 1 /\ exc' = exc
     ELSE pc' = "raised" /\ UNCHANGED <<idx, exc>>

\* if node is not None: shutdown_node(node); then shutil.rmtree(tmp_dir).
\* An exception of shutdown_node leaves the block before rmtree.
finally(outcome) ==
  IF node # 0 /\ outcome # "ok"
  THEN /\ procs' = [procs EXCEPT ![node] = shutdown_node(@, outcome)]
       /\ trace' = Append(trace, <<"shutdown_node">>)
       /\ outputDir' = outputDir
       /\ exc' = "ShutdownError"
       /\ pc' = "raised"
       /\ UNCHANGED <<tmpDirs, idx>>
  ELSE /\ IF node # 0
          THEN /\ procs' = [procs EXCEPT ![node] = shutdown_node(@, outcome)]
               /\ trace' = Append(trace, <<"shutdown_node">>)
          ELSE UNCHANGED <<procs, trace>>
       /\ tmpDirs' = tmpDirs \ {tmp_dir}
       /\ outputDir' = outputDir
       /\ IF exc = "none"
          THEN pc' = "loop" /\ idx' = idx + 1 /\ exc' = exc
          ELSE pc' = "raised" /\ UNCHANGED <<idx, exc>>

Finally ==
  /\ pc = "finally"
  /\ \E outcome \in ShutdownOutcomes : finally(outcome)
  /\ UNCHANGED <<versions, tmp_dir, node, client, attempt, health, httpCalls,
                 cwd, skipped, begun, exitStatus, pvVars, relVars>>

(***************************************************************************)
(* KeyboardInterrupt, and the top level of the script, lines 280-285.      *)
(***************************************************************************)
\* a keyboard interrupt arrives while a statement of the try block runs: the
\* statement is left with KeyboardInterrupt, which no except clause of the try
\* block catches (create_client catches Exception only)
Interrupt ==
  /\ pc \in Range(TryOrder)
  /\ trace' = Append(trace, <<"KeyboardInterrupt">>)
  /\ attempt' = 0
  /\ Raise("KeyboardInterrupt")
  /\ UNCHANGED <<versions, idx, tmp_dir, tmpDirs, node, procs, client, health,
                 httpCalls, cwd, outputDir, skipped, begun, exitStatus, pvVars, relVars>>

SIGTERM == 15

\* the exit status for an exception that leaves main(): KeyboardInterrupt is
\* caught and sys.exit(signal.SIGTERM) called; any other ends the interpreter
\* with status 1
top_level(e) == IF e = "KeyboardInterrupt" THEN SIGTERM ELSE 1

\* main() has raised
ExitOnException ==
  /\ pc = "raised"
  /\ exitStatus' = top_level(exc)
  /\ pc' = "exited"
  /\ UNCHANGED <<versions, idx, exc, tmp_dir, tmpDirs, node, procs, client, attempt,
                 health, trace, httpCalls, cwd, outputDir, skipped, begun, pvVars, relVars>>

\* main() has returned
ExitNormally ==
  /\ pc = "done"
  /\ exitStatus' = 0
  /\ pc' = "exited"
  /\ UNCHANGED <<versions, idx, exc, tmp_dir, tmpDirs, node, procs, client, attempt,
                 health, trace, httpCalls, cwd, outputDir, skipped, begun, pvVars, relVars>>

(***************************************************************************)
(* The run of main().                                                      *)
(***************************************************************************)
Next ==
  \/ Finish
  \/ ParseFail
  \/ Skip
  \/ Begin
  \/ Setup
  \/ RemoveLicense
  \/ RemoveShield
  \/ RmShieldConfig
  \/ InstallLicense
  \/ InstallShield
  \/ UserAdd
  \/ StartNode
  \/ CreateClientAttempt
  \/ CreateClientTimeout
  \/ GenerateSecurityIndex
  \/ ShutdownNode
  \/ CompressIndex
  \/ Finally
  \/ Interrupt
  \/ ExitOnException
  \/ ExitNormally

Spec == Init /\ [][Next]_vars

(***************************************************************************)
(* dev-tools/prepare_release_candidate.py: the script's main block and     *)
(* process_file. A line of a file is a sequence of tokens; the version id  *)
(* inside a line is spelled character by character.                        *)
(***************************************************************************)
\* the longest Version.java of the model, in lines
MaxLines == 2

\* str.replace(old, new): the occurrences of old, left to right, replaced
RECURSIVE Replace(_, _, _)
Replace(s, old, new) ==
  IF Len(s) < Len(old) THEN s
  ELSE IF SubSeq(s, 1, Len(old)) = old
       THEN new \o Replace(SubSeq(s, Len(old) + 1, Len(s)), old, new)
       ELSE <<Head(s)>> \o Replace(Tail(s), old, new)

\* release.replace('.', '_').replace('-', '_')
ReleaseId(r) == Replace(Replace(r, <<".">>, <<"_">>), <<"-">>, <<"_">>)

\* 'new Version(V_%s_ID, true' % (release)
pattern(r) == <<"new Version(V_">> \o ReleaseId(r) \o <<"_ID, ", "true">>

\* 'new Version(V_%s_ID, false' % (release)
replacement(r) == <<"new Version(V_">> \o ReleaseId(r) \o <<"_ID, ", "false">>

\* the callback of remove_version_snapshot
callback(r, line) == Replace(line, pattern(r), replacement(r))

\* the versions a pom.xml may carry in front of -SNAPSHOT
PomVersions ==
  { <<"2", ".", "0", ".", "0">>,
    <<"2", ".", "0", ".", "0", "-", "r", "c", "1">>,
    <<"2">> }

\* the lines of a Version.java: declarations of versions and other text
VersionLines ==
  { <<"new Version(V_", "2", "_", "0", "_", "0", "_ID, ", "true", ", LUCENE);">>,
    <<"new Version(V_", "2", "_", "0", "_", "0", "_ID, ", "false", ", LUCENE);">>,
    <<"new Version(V_", "2", "_", "0", "_", "0", "_", "r", "c", "1", "_ID, ", "true", ", LUCENE);">>,
    <<"// the current version">> }

\* the contents a Version.java may have
FileContents == UNION {[1..n -> VersionLines] : n \in 0..MaxLines}

\* the number of digits s starts with
RECURSIVE LeadingDigits(_)
LeadingDigits(s) ==
  IF s # <<>> /\ IsDigit(Head(s)) THEN 1 + LeadingDigits(Tail(s)) ELSE 0

\* re.match('(\d+\.\d+)\.*', release_version)
MatchesFormat(r) ==
  LET d == LeadingDigits(r)
  IN  /\ d >= 1
      /\ Len(r) >= d + 2
      /\ r[d + 1] = "."
      /\ IsDigit(r[d + 2])

\* argparse store_false: the flag stores False, its absence leaves the default
store_false(passed, default) == IF passed THEN FALSE ELSE default

\* argparse store_true: the flag stores True, its absence leaves the default
store_true(passed, default) == IF passed THEN TRUE ELSE default

\* the phrases of the output of git status for a checkout
StatusText(c) ==
  (IF c.untracked THEN {"Untracked files:"} ELSE {}) \cup {c.branch}

\* ensure_checkout_is_clean: the commands it runs and whether it raises
ensure_checkout_is_clean(c) ==
  IF c.local_mods
  THEN [log |-> << <<"git", "diff">> >>, raised |-> TRUE]
  ELSE [log |-> << <<"git", "diff">>, <<"git", "status">> >>,
        raised |-> \/ "Untracked files:" \in StatusText(c)
                   \/ "is behind" \in StatusText(c)
                   \/ "is ahead" \in StatusText(c)]

\* process_file returning True whatever the callback did: a faulty variant
process_file_always_true(file, tmp, r) ==
  [returned |-> "True",
   file |-> [exists |-> TRUE, lines |-> [i \in 1..Len(file.lines) |-> callback(r, file.lines[i])]],
   tmp |-> tmp]

\* process_file on the file, with the callback of release r: the temporary
\* file t is written, then moved over the file or removed
process_file(file, tmp, r) ==
  LET t == "mkstemp"
      new_file == [i \in 1..Len(file.lines) |-> callback(r, file.lines[i])]
      modified == \E i \in 1..Len(file.lines) : new_file[i] # file.lines[i]
  IN  IF modified
      THEN [returned |-> "True",
            file |-> [exists |-> TRUE, lines |-> new_file],
            tmp |-> (tmp \cup {t}) \ {t}]
      ELSE [returned |-> "False",
            file |-> file,
            tmp |-> (tmp \cup {t}) \ {t}]

\* the command line and the checkout the script is started with
InitRelease ==
  /\ MainIdle
  /\ PvIdle
  /\ relPc = "parse_args"
  /\ relArgs \in [{"deploy", "skipDocCheck", "push", "install_only"} -> BOOLEAN]
  /\ skip_doc_check = FALSE
  /\ checkout \in [local_mods : BOOLEAN, untracked : BOOLEAN,
                   branch : {"up to date", "is behind", "is ahead", "have diverged"}]
  /\ release = <<>>
  /\ versionFile \in {[exists |-> FALSE, lines |-> <<>>]}
                      \cup {[exists |-> TRUE, lines |-> l] : l \in FileContents}
  /\ relTmp = {}
  /\ processed = "unset"
  /\ relLog = <<>>
  /\ relExc = "none"

\* an exception leaves the script
RelRaise(e) ==
  /\ relExc' = e
  /\ relPc' = "raised"

\* lines 172-193: the arguments are parsed
ParseArgs ==
  /\ relPc = "parse_args"
  /\ skip_doc_check' = store_false(relArgs.skipDocCheck, FALSE)
  /\ relPc' = "ensure_checkout_is_clean"
  /\ UNCHANGED <<relArgs, checkout, release, versionFile, relTmp, processed, relLog,
                 relExc, mainVars, exitStatus, pvVars>>

\* line 195
EnsureCheckoutIsClean ==
  /\ relPc = "ensure_checkout_is_clean"
  /\ relLog' = relLog \o ensure_checkout_is_clean(checkout).log
  /\ IF ensure_checkout_is_clean(checkout).raised
     THEN RelRaise("RuntimeError")
     ELSE relPc' = "find_release_version" /\ relExc' = relExc
  /\ UNCHANGED <<relArgs, skip_doc_check, checkout, release, versionFile, relTmp,
                 processed, mainVars, exitStatus, pvVars>>

\* lines 196-199: the version of pom.xml is read and its format checked
FindReleaseVersion ==
  /\ relPc = "find_release_version"
  /\ \E found \in PomVersions \cup {<<>>} :
       /\ release' = found
       /\ IF found = <<>> \/ ~MatchesFormat(found)
          THEN RelRaise("RuntimeError")
          ELSE relPc' = "doc_check" /\ relExc' = relExc
  /\ UNCHANGED <<relArgs, skip_doc_check, checkout, versionFile, relTmp, processed,
                 relLog, mainVars, exitStatus, pvVars>>

\* lines 203-207: the check for pending documentation changes
DocCheck ==
  /\ relPc = "doc_check"
  /\ IF ~skip_doc_check
     THEN /\ relLog' = Append(relLog, <<"update_reference_docs">>)
          /\ \E pending_files \in BOOLEAN :
               IF pending_files
               THEN RelRaise("RuntimeError")
               ELSE relPc' = "versions_set_dev_tools" /\ relExc' = relExc
     ELSE /\ relPc' = "versions_set_dev_tools"
          /\ UNCHANGED <<relLog, relExc>>
  /\ UNCHANGED <<relArgs, skip_doc_check, checkout, release, versionFile, relTmp,
                 processed, mainVars, exitStatus, pvVars>>

\* run(command) at step: os.system, RuntimeError on a non-zero status
RunStep(step, command, next) ==
  /\ relPc = step
  /\ relLog' = Append(relLog, command)
  /\ \E status \in {0, 1} :
       IF status = 0
       THEN relPc' = next /\ relExc' = relExc
       ELSE RelRaise("RuntimeError")
  /\ UNCHANGED <<relArgs, skip_doc_check, checkout, release, versionFile, relTmp,
                 processed, mainVars, exitStatus, pvVars>>

\* line 210
VersionsSetDevTools ==
  RunStep("versions_set_dev_tools", <<"mvn", "versions:set", "dev-tools">>,
          "versions_set_rest_api_spec")

\* line 211
VersionsSetRestApiSpec ==
  RunStep("versions_set_rest_api_spec", <<"mvn", "versions:set", "rest-api-spec">>,
          "versions_set")

\* line 212
VersionsSet ==
  RunStep("versions_set", <<"mvn", "versions:set", ".">>, "process_file")

\* line 149: remove_version_snapshot calls process_file on Version.java; a
\* missing file makes open() raise after mkstemp made the temporary file
ProcessFile ==
  /\ relPc = "process_file"
  /\ relLog' = Append(relLog, <<"process_file">>)
  /\ IF versionFile.exists
     THEN /\ versionFile' = process_file(versionFile, relTmp, release).file
          /\ relTmp' = process_file(versionFile, relTmp, release).tmp
          /\ processed' = process_file(versionFile, relTmp, release).returned
          /\ relPc' = "if_not_processed"
          /\ relExc' = relExc
     ELSE /\ relTmp' = relTmp \cup {"mkstemp"}
          /\ RelRaise("FileNotFoundError")
          /\ UNCHANGED <<versionFile, processed>>
  /\ UNCHANGED <<relArgs, skip_doc_check, checkout, release, mainVars, exitStatus, pvVars>>

\* lines 150-151: if not processed: raise RuntimeError
RemoveVersionSnapshot ==
  /\ relPc = "if_not_processed"
  /\ IF processed = "False"
     THEN RelRaise("RuntimeError")
     ELSE relPc' = "local_repo" /\ relExc' = relExc
  /\ UNCHANGED <<relArgs, skip_doc_check, checkout, release, versionFile, relTmp,
                 processed, relLog, mainVars, exitStatus, pvVars>>

\* lines 218-223: the short hash is read and an old local repository removed
LocalRepo ==
  /\ relPc = "local_repo"
  /\ \E exists \in BOOLEAN :
       relLog' = IF exists
                 THEN relLog \o << <<"git", "log">>, <<"rmtree", "localRepoElasticsearch">> >>
                 ELSE Append(relLog, <<"git", "log">>)
  /\ relPc' = "install_and_deploy"
  /\ UNCHANGED <<relArgs, skip_doc_check, checkout, release, versionFile, relTmp,
                 processed, relExc, mainVars, exitStatus, pvVars>>

\* lines 225-228: mvn_target
mvn_target == IF store_true(relArgs.install_only, FALSE) THEN "install" ELSE "deploy"

\* lines 235-238: the build, the clean-up of the local repository, the renaming
InstallAndDeploy ==
  /\ relPc = "install_and_deploy"
  /\ IF store_true(relArgs.deploy, FALSE)
     THEN \E failed \in {"none", "install_command", "clean_repo_command"} :
            /\ relLog' =
                 IF failed = "install_command"
                 THEN Append(relLog, <<"mvn", "clean", mvn_target>>)
                 ELSE IF failed = "clean_repo_command"
                 THEN relLog \o << <<"mvn", "clean", mvn_target>>,
                                   <<"find", "_remote.repositories">> >>
                 ELSE relLog \o << <<"mvn", "clean", mvn_target>>,
                                   <<"find", "_remote.repositories">>,
                                   <<"rename_local_meta_files">> >>
            /\ IF failed = "none"
               THEN relPc' = "push" /\ relExc' = relExc
               ELSE RelRaise("RuntimeError")
     ELSE /\ relPc' = "push"
          /\ UNCHANGED <<relLog, relExc>>
  /\ UNCHANGED <<relArgs, skip_doc_check, checkout, release, versionFile, relTmp,
                 processed, mainVars, exitStatus, pvVars>>

\* lines 245-248: the sync to S3 and the build of the repositories
Push ==
  /\ relPc = "push"
  /\ IF store_true(relArgs.push, FALSE)
     THEN \E failed \in {"none", "s3_sync_command", "build_repo_command"} :
            /\ relLog' =
                 IF failed = "s3_sync_command"
                 THEN Append(relLog, <<"s3cmd", "sync">>)
                 ELSE relLog \o << <<"s3cmd", "sync">>, <<"build_repositories.sh">> >>
            /\ IF failed = "none"
               THEN relPc' = "done" /\ relExc' = relExc
               ELSE RelRaise("RuntimeError")
     ELSE /\ relPc' = "done"
          /\ UNCHANGED <<relLog, relExc>>
  /\ UNCHANGED <<relArgs, skip_doc_check, checkout, release, versionFile, relTmp,
                 processed, mainVars, exitStatus, pvVars>>

NextRelease ==
  \/ ParseArgs
  \/ EnsureCheckoutIsClean
  \/ FindReleaseVersion
  \/ DocCheck
  \/ VersionsSetDevTools
  \/ VersionsSetRestApiSpec
  \/ VersionsSet
  \/ ProcessFile
  \/ RemoveVersionSnapshot
  \/ LocalRepo
  \/ InstallAndDeploy
  \/ Push

SpecRelease == InitRelease /\ [][NextRelease]_vars

(***************************************************************************)
(* Properties.                                                             *)
(***************************************************************************)
\* the processing of the version at loop position i has been left
Left(i) == i \in begun /\ (idx > i \/ pc \in {"raised", "done", "exited"})

\* the node of loop position i was started by start_node
Started(i) == procs[i].state # "none"

\* the commands of the current version that started a subprocess
Spawns == {k \in 1..Len(trace) : Head(trace[k]) \in {"plugin", "esusers", "rm", "spawn"}}

\* v is X.Y.Z with three non-negative integer components
IsNumeric3(v) ==
  LET pieces == ReSplit(v, <<>>, <<>>)
  IN  Len(pieces) = 3 /\ \A k \in 1..3 : IsNumber(pieces[k])

\* (major, minor, patch) of an X.Y.Z string, as numbers
NumTriple(v) ==
  LET pieces == ReSplit(v, <<>>, <<>>)
  IN  [k \in 1..3 |-> ToInt(pieces[k])]

\* the numeric order on (major, minor, patch)
TripleLess(x, y) ==
  \/ x[1] < y[1]
  \/ x[1] = y[1] /\ x[2] < y[2]
  \/ x[1] = y[1] /\ x[2] = y[2] /\ x[3] < y[3]

\* C1: every node started by start_node has had node.terminate() called on it
\* (shutdown_node has run on it) once its version's processing is left,
\* whichever later step failed.
C1_StartedNodeIsTerminated ==
  \A i \in DOMAIN procs :
    (Started(i) /\ Left(i)) => procs[i].terminateCalls >= 1

\* C1 witness: population failed after the node was started, and the version's
\* processing has been left.
C1_Witness ==
  /\ pc = "raised"
  /\ exc = "HTTPError"
  /\ idx \in DOMAIN procs
  /\ Started(idx)
  /\ Left(idx)

\* C2: every temporary directory made by mkdtemp is removed once its version's
\* processing is left, on success and on every failure path, also when
\* shutdown_node itself raises.
C2_TmpDirRemovedOnExit ==
  pc \in {"loop", "raised", "done"} => tmpDirs = {}

\* C3 (as claimed): when a port probe succeeds, the version fails before any
\* subprocess was started: no plugin-manager, no user-management command, no
\* server.
C3_NoSubprocessBeforePortFailure ==
  exc = "PortInUse" => Spawns = {}

\* C3 (amended): when a port probe succeeds, the version fails before the
\* server executable is spawned; the plugin-manager and user-management
\* commands of lines 253-262 have all run by then.
C3_NoServerBeforePortFailure ==
  exc = "PortInUse" =>
    /\ \A k \in 1..Len(trace) : Head(trace[k]) # "spawn"
    /\ node = 0
    /\ ~Started(idx)
    /\ Len(trace) >= 6
    /\ SubSeq(trace, 1, 6) =
         << <<"plugin", "remove", "license">>, <<"plugin", "remove", "shield">>,
            <<"rm", "-rf", "config/shield">>,
            <<"plugin", "install", "license">>, <<"plugin", "install", "shield">>,
            <<"esusers", "useradd", "es_admin">> >>

\* C3 witness: a probe found a port in use.
C3_Witness ==
  /\ pc = "finally"
  /\ exc = "PortInUse"
  /\ Len(trace) > 0
  /\ Head(trace[Len(trace)]) = "probe"

\* C4: a version X.Y.Z is skipped exactly when it is below 2.3.0 in the
\* numeric order; every version at or above 2.3.0 is processed.
C4_SkippedIffBelowMinimum ==
  \A i \in skipped \cup begun :
    IsNumeric3(versions[i]) =>
      (i \in skipped <=> TripleLess(NumTriple(versions[i]), <<2, 3, 0>>))

\* C5: for version strings a and b of three non-negative integer components,
\* parse_version(a) < parse_version(b) exactly when a precedes b in the numeric
\* order on (major, minor, patch).
C5_OrderIsNumeric ==
  (pvPc = "compared" /\ IsNumeric3(pvA) /\ IsNumeric3(pvB)) =>
    (pvLess = "True" <=> TripleLess(NumTriple(pvA), NumTriple(pvB)))

\* the number of '.' and '-' in v
SepCount(v) == Cardinality({k \in 1..Len(v) : v[k] \in {".", "-"}})

\* the part of v before its first separator, and the part after its last
FirstPiece(v) ==
  LET seps == {k \in 1..Len(v) : v[k] \in {".", "-"}}
  IN  SubSeq(v, 1, (CHOOSE k \in seps : \A m \in seps : k <= m) - 1)

LastPiece(v) ==
  LET seps == {k \in 1..Len(v) : v[k] \in {".", "-"}}
  IN  SubSeq(v, (CHOOSE k \in seps : \A m \in seps : k >= m) + 1, Len(v))

HasUpper(s) == \E k \in 1..Len(s) : s[k] \in {"A", "B", "C", "G", "R"}

\* what parse_version is to return for the argument v, against its result res
ShapeOK(v, res) ==
  LET n == SepCount(v) + 1
  IN  /\ res.raised <=> n \notin {3, 4}
      /\ ~res.raised =>
           /\ Len(res.value) = 4
           /\ \A k \in 1..Len(res.value) : ~HasUpper(res.value[k])
           /\ res.value[1] = Lower(FirstPiece(v))
           /\ n = 3 => res.value[4] = <<"g", "a">>
           /\ n = 4 => res.value[4] = Lower(LastPiece(v))

\* C6: parse_version returns exactly four lower-cased parts whenever it
\* returns: a three-component argument gets the qualifier 'ga', a four-component
\* argument keeps its own qualifier lower-cased, and any other number of
\* components fails the assert.
C6_ParseVersionShape ==
  pvPc \in {"parsed", "raised", "compared"} =>
    ShapeOK(pvA, pvResA) /\ ShapeOK(pvB, pvResB)

\* C6 witness: a three-component argument and a four-component argument with an
\* upper-case qualifier have both been parsed.
C6_Witness ==
  /\ pvPc = "parsed"
  /\ SepCount(pvA) = 2
  /\ SepCount(pvB) = 3
  /\ HasUpper(pvB)
  /\ pvResB.value[4] = <<"r", "c", "1">>

\* C7: create_client makes at most 30 health-check attempts: a failed attempt
\* is swallowed and followed by the next attempt, a successful attempt returns
\* the client of this node at once, and after 30 failed attempts the call ends
\* in an error and returns no client.
C7_CreateClientBounded ==
  /\ [](pc = "create_client" => attempt \in 0..30)
  /\ [][pc = "create_client" =>
         \/ /\ pc' = "create_client"
            /\ attempt < 30
            /\ attempt' = attempt + 1
            /\ health' = "exception"
            /\ exc' = "none"
            /\ client' = client
         \/ /\ pc' = "generate_security_index"
            /\ attempt < 30
            /\ health' = "ok"
            /\ exc' = "none"
            /\ client' = node
         \/ /\ pc' = "finally"
            /\ attempt = 30
            /\ health = "exception"
            /\ exc' # "none"
            /\ client' = client
            /\ client # node
         \/ /\ pc' = "finally"
            /\ exc' = "KeyboardInterrupt"
            /\ client' = client]_vars

\* C7 witness: 30 attempts have failed and the call has ended in an error.
C7_Witness ==
  /\ pc = "finally"
  /\ exc = "NameError"
  /\ health = "exception"
  /\ client # node

\* the version at loop position i has been processed to the end without error
Completed(i) ==
  /\ i \in begun
  /\ idx > i \/ (idx = i /\ pc = "finally" /\ exc = "none")

\* the archive step of loop position j has run and zip has failed
ZipFailed(j) ==
  /\ j = idx
  /\ j \in begun
  /\ exc = "CalledProcessError"
  /\ \E k \in 1..Len(trace) : trace[k] = <<"zip", "-r">>

\* C8: after successful runs for a version, the output directory holds one
\* archive of that version and its content is that of the latest run only,
\* whether or not an archive of that name was there before.
C8_LatestRunOnly ==
  \A i \in DOMAIN versions :
    (Completed(i) /\ ~\E j \in DOMAIN versions : versions[j] = versions[i] /\ ZipFailed(j)) =>
      LET same == {j \in DOMAIN versions : Completed(j) /\ versions[j] = versions[i]}
          last == CHOOSE j \in same : \A m \in same : j >= m
      IN  /\ versions[i] \in DOMAIN outputDir
          /\ outputDir[versions[i]] = {last}

\* C8 witness: the same version has been processed twice, both times to the
\* end.
C8_Witness ==
  \E i \in DOMAIN versions, j \in DOMAIN versions :
    /\ i < j
    /\ versions[i] = versions[j]
    /\ Completed(i)
    /\ Completed(j)

\* C9: after compress returns or raises, the working directory is the one of
\* the moment compress was called, for a zero and for a non-zero exit status
\* of zip.
C9_CwdRestored ==
  [][pc = "compress_index" => cwd' = cwd]_vars

\* the node of the current version has been terminated and waited for, and
\* generate_security_index has returned without error
ReadyToArchive ==
  /\ procs[idx].state = "exited"
  /\ procs[idx].terminateCalls >= 1
  /\ \E k \in 1..Len(trace) : trace[k] = <<"generate_security_index">>
  /\ httpCalls = HttpSequence
  /\ exc = "none"

\* C10: compress_index runs only after the node of the version was sent
\* terminate and waited for, and after generate_security_index completed
\* without error; the output directory changes at no other moment.
C10_ArchiveAfterShutdown ==
  /\ [](pc = "compress_index" => ReadyToArchive)
  /\ [][outputDir' # outputDir => (pc = "compress_index" /\ ReadyToArchive)]_vars

\* C10 witness: the archive step has been reached.
C10_Witness ==
  /\ pc = "compress_index"
  /\ procs[idx].state = "exited"

\* the node processes that have been spawned and have not exited
Live == {i \in DOMAIN procs : procs[i].state \in {"running", "terminating"}}

\* C11: at most one node started by start_node is live at any point, and when
\* the node of a version has been started the nodes of all earlier versions
\* have been terminated and waited for.
C11_OneLiveNode ==
  /\ Cardinality(Live) <= 1
  /\ \A i \in DOMAIN procs, j \in DOMAIN procs :
       (i < j /\ Started(j)) => procs[i].state \in {"none", "exited"}

\* C11 witness: the node of the second version runs after the node of the
\* first has exited.
C11_Witness ==
  /\ Len(versions) >= 2
  /\ procs[1].state = "exited"
  /\ procs[2].state = "running"

\* C12: once a fatal condition has been raised while a version is processed,
\* the run only cleans up and ends: the exception stays in flight, the loop
\* does not advance and no later version is skipped or begun.
C12_FatalAbortsRun ==
  /\ [](exc # "none" => pc \in {"finally", "raised", "exited"})
  /\ [][exc # "none" =>
          /\ exc' # "none"
          /\ idx' = idx
          /\ begun' = begun
          /\ skipped' = skipped
          /\ pc' \in {"finally", "raised", "exited"}]_vars

\* C12 witness: the first of several versions found a port in use, its cleanup
\* is done and the process has ended with an error status.
C12_Witness ==
  /\ pc = "exited"
  /\ exc = "PortInUse"
  /\ idx < Len(versions)
  /\ tmpDirs = {}
  /\ exitStatus = 1

\* the operations of generate_security_index in their fixed order
ExpectedOps ==
  <<"put_user", "put_role", "index", "index", "index", "index", "index", "health">>

\* C13: generate_security_index issues create user, create role, five index
\* calls and the health check in this order, and the call that fails is the
\* last one issued: after a failed user or role creation no later call is made
\* and the error is in flight.
C13_FixedOrderNoRetry ==
  /\ Len(httpCalls) <= Len(ExpectedOps)
  /\ \A k \in 1..Len(httpCalls) : httpCalls[k].op = ExpectedOps[k]
  /\ \A k \in 1..Len(trace) :
       Head(trace[k]) = "http_failed" =>
         /\ exc # "none"
         /\ pc \in {"finally", "raised", "exited"}
         /\ Len(httpCalls) >= 1
         /\ httpCalls[Len(httpCalls)].op = trace[k][2]
         /\ trace[k][2] = "put_user" => Len(httpCalls) = 1
         /\ trace[k][2] = "put_role" => Len(httpCalls) = 2

\* C13 witness: the user creation has failed.
C13_Witness ==
  /\ pc = "finally"
  /\ exc = "HTTPError"
  /\ Len(httpCalls) = 1
  /\ trace[Len(trace)] = <<"http_failed", "put_user">>

\* generate_security_index has returned without error for the current version
Populated ==
  /\ \E k \in 1..Len(trace) : trace[k] = <<"generate_security_index">>
  /\ \A k \in 1..Len(trace) : Head(trace[k]) # "http_failed"

\* the index calls made on the collection t
DocsIn(t) == {k \in 1..Len(httpCalls) : httpCalls[k].op = "index" /\ httpCalls[k].target = t}

\* exactly two documents, one with all three fields and one with title only
TwoShapes(t) ==
  /\ Cardinality(DocsIn(t)) = 2
  /\ \E k \in DocsIn(t) : httpCalls[k].fields = {"title", "body", "secured_body"}
  /\ \E k \in DocsIn(t) : httpCalls[k].fields = {"title"}

\* C14: after generate_security_index has returned without error, index1 and
\* index2 each hold two documents (one with title, body and secured_body, one
\* with title only) and index3 holds one document with title only.
C14_FixtureContent ==
  Populated =>
    /\ TwoShapes("index1")
    /\ TwoShapes("index2")
    /\ Cardinality(DocsIn("index3")) = 1
    /\ \A k \in DocsIn("index3") : httpCalls[k].fields = {"title"}
    /\ \A k \in 1..Len(httpCalls) :
         httpCalls[k].op = "index" => httpCalls[k].target \in {"index1", "index2", "index3"}

\* C14 witness: the population has returned and the node is about to be shut
\* down.
C14_Witness ==
  /\ pc = "shutdown_node"
  /\ Populated
  /\ Cardinality(DocsIn("index1")) = 2

\* C15: start_node is called only after remove license, remove shield,
\* install license, install shield (in this order, the shield config removed
\* in between) and the useradd of the admin user.
C15_PluginsBeforeStart ==
  (pc = "start_node" \/ \E k \in 1..Len(trace) : Head(trace[k]) \in {"probe", "spawn"}) =>
    /\ Len(trace) >= 6
    /\ trace[1] = <<"plugin", "remove", "license">>
    /\ trace[2] = <<"plugin", "remove", "shield">>
    /\ trace[3] = <<"rm", "-rf", "config/shield">>
    /\ trace[4] = <<"plugin", "install", "license">>
    /\ trace[5] = <<"plugin", "install", "shield">>
    /\ trace[6] = <<"esusers", "useradd", "es_admin">>

\* C15 witness: the server has been spawned.
C15_Witness ==
  /\ pc = "create_client"
  /\ Len(trace) > 0
  /\ Head(trace[Len(trace)]) = "spawn"

\* C16: a non-zero exit of a shelled-out tool is fatal: it is the last thing
\* the version does, the error is in flight, no node is started after a failed
\* plugin, rm or useradd command, and after a failed zip the cleanup is done
\* and the process ends with an error status.
C16_NonZeroExitIsFatal ==
  \A k \in 1..Len(trace) :
    trace[k] = <<"exit", "nonzero">> =>
      /\ k = Len(trace)
      /\ k > 1
      /\ exc # "none"
      /\ pc \in {"finally", "raised", "exited"}
      /\ trace[k - 1] # <<"zip", "-r">> => (node = 0 /\ ~Started(idx))
      /\ (trace[k - 1] = <<"zip", "-r">> /\ pc \in {"raised", "exited"}) => tmpDirs = {}
      /\ pc = "exited" => exitStatus = 1

\* C16 witness: the install of shield has failed and the process has ended.
C16_Witness ==
  /\ pc = "exited"
  /\ Len(trace) = 6
  /\ trace[5] = <<"plugin", "install", "shield">>
  /\ trace[6] = <<"exit", "nonzero">>

\* C17: after a keyboard interrupt inside the try block the cleanup has run
\* (a started node has exited, the temporary directory is removed) when main()
\* is left, and the process exits with the status SIGTERM.
C17_InterruptCleansUpAndExits ==
  ((\E k \in 1..Len(trace) : trace[k] = <<"KeyboardInterrupt">>) /\ pc \in {"raised", "exited"}) =>
    /\ tmpDirs = {}
    /\ Started(idx) => procs[idx].state = "exited"
    /\ pc = "exited" => exitStatus = 15

\* the archive step has run for the version v in this run
Archived(v) ==
  \/ \E j \in DOMAIN versions : Completed(j) /\ versions[j] = v
  \/ /\ idx \in DOMAIN versions
     /\ versions[idx] = v
     /\ \E k \in 1..Len(trace) : trace[k] = <<"zip", "-r">>

\* C20: the output directory changes in the archive step only, so when a
\* version fails before compress_index is reached an archive that was there
\* is still there with its content.
C20_ArchiveKeptOnFailure ==
  /\ [][pc # "compress_index" => outputDir' = outputDir]_vars
  /\ [](\A v \in DOMAIN outputDir : ~Archived(v) => outputDir[v] = {0})

\* C20 witness: a version whose archive was there has failed before the
\* archive step, and the archive is there.
C20_Witness ==
  /\ pc = "exited"
  /\ exc = "HTTPError"
  /\ ~Archived(versions[idx])
  /\ versions[idx] \in DOMAIN outputDir
  /\ outputDir[versions[idx]] = {0}

\* the steps of the release script that follow the documentation check
AfterDocCheck ==
  {"versions_set_dev_tools", "versions_set_rest_api_spec", "versions_set",
   "process_file", "if_not_processed", "local_repo", "install_and_deploy", "push", "done"}

\* update_reference_docs has been called
DocChecked == \E k \in 1..Len(relLog) : relLog[k] = <<"update_reference_docs">>

\* C18: once the release script is past the documentation check, the check
\* was run (update_reference_docs was called) exactly when --skipDocCheck was
\* not passed.
C18_SkipDocCheckSkips ==
  relPc \in AfterDocCheck => (DocChecked <=> ~relArgs.skipDocCheck)

\* old occurs in the line
Contains(line, old) ==
  \E k \in 0..(Len(line) - Len(old)) : SubSeq(line, k + 1, k + Len(old)) = old

\* C19: process_file on an existing file leaves no temporary file; when a
\* line holds the pattern it returns True and the file holds the callback's
\* output, otherwise it returns False and the file is as it was; and
\* remove_version_snapshot raises exactly when process_file returned False.
C19_ProcessFileReplacesIffChanged ==
  /\ [][(relPc = "process_file" /\ versionFile.exists) =>
          LET hit == \E i \in 1..Len(versionFile.lines) :
                       Contains(versionFile.lines[i], pattern(release))
          IN  /\ relTmp' = {}
              /\ versionFile'.exists
              /\ Len(versionFile'.lines) = Len(versionFile.lines)
              /\ hit => /\ processed' = "True"
                        /\ versionFile' # versionFile
                        /\ \A i \in 1..Len(versionFile.lines) :
                             versionFile'.lines[i] = callback(release, versionFile.lines[i])
              /\ ~hit => /\ processed' = "False"
                         /\ versionFile' = versionFile]_vars
  /\ [][relPc = "if_not_processed" =>
          ((relPc' = "raised" /\ relExc' = "RuntimeError") <=> processed = "False")]_vars

\* C19 witness: one of two lines of Version.java was changed, process_file
\* returned True and remove_version_snapshot returned.
C19_Witness ==
  /\ relPc = "local_repo"
  /\ processed = "True"
  /\ Len(versionFile.lines) = 2
  /\ versionFile.lines[2] = <<"// the current version">>
  /\ ~Contains(versionFile.lines[1], pattern(release))
  /\ Contains(versionFile.lines[1], replacement(release))
  /\ relTmp = {}

\* the checkout has commits of origin that are not pulled; a branch that has
\* diverged from origin has them too
Behind(c) == c.branch \in {"is behind", "have diverged"}

\* the checkout has local commits that are not pushed
Ahead(c) == c.branch \in {"is ahead", "have diverged"}

\* the checkout is not clean
Dirty(c) == c.local_mods \/ c.untracked \/ Behind(c) \/ Ahead(c)

\* a version bump, the Version.java edit, the build/deploy or the S3 sync
Modifying(command) == Head(command) \in {"mvn", "process_file", "s3cmd"}

\* C21: when the checkout has local modifications, untracked files, is behind
\* origin or is ahead of origin, the release script goes from
\* ensure_checkout_is_clean to an error only, and no version bump, Version.java
\* edit, build/deploy or S3 sync is run.
C21_CleanCheckoutBeforeModifying ==
  Dirty(checkout) =>
    /\ \A k \in 1..Len(relLog) : ~Modifying(relLog[k])
    /\ relPc \notin {"parse_args", "ensure_checkout_is_clean"} =>
         (relPc = "raised" /\ relExc = "RuntimeError")

====
